---- MODULE Spec2Model ----
(***************************************************************************)
(* Stream decoding layer of libopenai:                                     *)
(*   - OpenAiStream<T>::poll_next       (src/src/lib.rs)                   *)
(*   - Contents<S, T>::poll_next        (src/src/file.rs)                  *)
(*   - StreamTokioAsyncRead             (src/src/api/common.rs)            *)
(*                                                                         *)
(* Bytes are one-character strings.  The members of the error object are   *)
(* kept as whole JSON lexemes (KeyError, MemberMessage, MemberType); Width *)
(* gives the number of bytes such a lexeme occupies, so that byte-offset   *)
(* slicing (&line[5..]) acts on bytes and not on lexemes.                  *)
(***************************************************************************)
EXTENDS Integers, Sequences, FiniteSets, TLC

\* ------------------------------------------------------------------ bounds
\* Largest number of event records put on the wire of the event stream.
MaxRecords == 2
\* Largest number of complete lines in the body of a file-content response.
MaxLines == 5
\* Largest number of bytes the source of a buffered reader delivers.
MaxBytes == 3
\* Largest remaining capacity of a buffer handed to poll_read.
MaxCap == 2

\* ------------------------------------------------------------- byte strings
NL == "\n"
SP == " "

\* u8::is_ascii_whitespace, restricted to the bytes of the model.
is_ascii_whitespace(b) == b \in {SP, NL}

\* JSON lexemes of the in-band error object (ChunkError, OpenAiError).
KeyError == "\"error\":"
MemberMessage == "\"message\":\"rate limited\""
MemberType == ",\"type\":\"x\""

\* Number of bytes a symbol of the model occupies on the wire.
Width(b) ==
  CASE b = KeyError -> 8
    [] b = MemberMessage -> 24
    [] b = MemberType -> 11
    [] OTHER -> 1

RECURSIVE ByteLen(_)
ByteLen(s) == IF s = <<>> THEN 0 ELSE Width(Head(s)) + ByteLen(Tail(s))

Drop(s, n) == SubSeq(s, n + 1, Len(s))
Take(s, n) == SubSeq(s, 1, n)

\* &line[n..] on bytes: the caller checks ByteLen(s) >= n first (a shorter
\* slice panics).  A cut that falls inside a lexeme leaves a fragment "?".
RECURSIVE SliceFrom(_, _)
SliceFrom(s, n) ==
  IF n = 0 \/ s = <<>> THEN s
  ELSE IF Width(Head(s)) <= n THEN SliceFrom(Tail(s), n - Width(Head(s)))
  ELSE <<"?">> \o Tail(s)

RECURSIVE trim_ascii_start(_)
trim_ascii_start(ascii) ==
  IF ascii # <<>> /\ is_ascii_whitespace(Head(ascii))
  THEN trim_ascii_start(Tail(ascii))
  ELSE ascii

RECURSIVE trim_ascii_end(_)
trim_ascii_end(ascii) ==
  IF ascii # <<>> /\ is_ascii_whitespace(ascii[Len(ascii)])
  THEN trim_ascii_end(Take(ascii, Len(ascii) - 1))
  ELSE ascii

trim_ascii(ascii) == trim_ascii_end(trim_ascii_start(ascii))

starts_with(s, p) == Len(s) >= Len(p) /\ Take(s, Len(p)) = p

\* ------------------------------------------------------------ wire literals
DONE == <<"[", "D", "O", "N", "E", "]">>
DataPrefix == <<"d", "a", "t", "a", ":">>
Delim == <<NL, NL>>

\* {"error":{"message":"rate limited","type":"x"}}
ErrorDoc == <<"{", KeyError, "{", MemberMessage, MemberType, "}", "}">>
\* {"error":{"message":"rate limited"}}
ErrorDocNoType == <<"{", KeyError, "{", MemberMessage, "}", "}">>

Digits == {"1", "2"}
DigitVal(d) == IF d = "1" THEN 1 ELSE 2

RECURSIVE NumVal(_)
NumVal(s) == IF s = <<>> THEN 0 ELSE 10 * NumVal(Take(s, Len(s) - 1)) + DigitVal(s[Len(s)])

IsNumber(s) == s # <<>> /\ \A i \in 1..Len(s) : s[i] \in Digits

\* ---------------------------------------------------------------- decoding
\* serde_json::from_slice::<ChunkError>: an object with an "error" member
\* that deserializes as OpenAiError; message and type are required members.
\* serde_json skips surrounding whitespace.
ParseChunkError(line) ==
  IF trim_ascii(line) = ErrorDoc
  THEN [ok |-> TRUE, message |-> "rate limited"]
  ELSE [ok |-> FALSE, message |-> ""]

\* serde_json::from_slice::<T>, at the most permissive payload type (any
\* JSON document of the model deserializes): numbers and the two objects.
ParseT(line) ==
  LET s == trim_ascii(line) IN
  IF IsNumber(s) THEN [ok |-> TRUE, val |-> [kind |-> "num", n |-> NumVal(s), members |-> {}]]
  ELSE IF s = ErrorDoc
    THEN [ok |-> TRUE, val |-> [kind |-> "obj", n |-> 0, members |-> {"message", "type"}]]
  ELSE IF s = ErrorDocNoType
    THEN [ok |-> TRUE, val |-> [kind |-> "obj", n |-> 0, members |-> {"message"}]]
  ELSE [ok |-> FALSE, val |-> [kind |-> "none", n |-> 0, members |-> {}]]

\* Items of Stream<Item = Result<T>>.
OkItem(v) == [tag |-> "Ok", err |-> "", val |-> v, msg |-> ""]
ErrItem(kind, msg) ==
  [tag |-> "Err", err |-> kind, val |-> [kind |-> "none", n |-> 0, members |-> {}], msg |-> msg]

\* DecodeLine with the data prefix stripped before the error-shape test.
DecodeLine_strip_first(raw) ==
  LET line == trim_ascii(raw)
      rest == trim_ascii_start(SliceFrom(line, 5))
      ce == ParseChunkError(rest)
      t == ParseT(rest)
  IN
  IF line = <<>> THEN [what |-> "skip", item |-> OkItem(t.val)]
  ELSE IF ByteLen(line) < 5 THEN [what |-> "panic", item |-> OkItem(t.val)]
  ELSE IF ce.ok THEN [what |-> "item", item |-> ErrItem("OpenAI", ce.message)]
  ELSE IF starts_with(rest, DONE) THEN [what |-> "end", item |-> OkItem(t.val)]
  ELSE IF ~t.ok THEN [what |-> "item", item |-> ErrItem("Json", "")]
  ELSE [what |-> "item", item |-> OkItem(t.val)]

\* Lines 216-233 of poll_next, for one extracted line.  what is "skip" (the
\* loop continues), "item", "end" (Ready(None)) or "panic".
\* DecodeLine without the trim_ascii of the line and without the empty test.
DecodeLine_no_trim(raw) ==
  LET line == raw
      ce == ParseChunkError(line)
      rest == trim_ascii_start(SliceFrom(line, 5))
      t == ParseT(rest)
  IN
  IF ce.ok THEN [what |-> "item", item |-> ErrItem("OpenAI", ce.message)]
  ELSE IF ByteLen(line) < 5 THEN [what |-> "panic", item |-> OkItem(t.val)]
  ELSE IF starts_with(rest, DONE) THEN [what |-> "end", item |-> OkItem(t.val)]
  ELSE IF ~t.ok THEN [what |-> "item", item |-> ErrItem("Json", "")]
  ELSE [what |-> "item", item |-> OkItem(t.val)]

DecodeLine(raw) ==
  LET line == trim_ascii(raw)
      ce == ParseChunkError(line)
      rest == trim_ascii_start(SliceFrom(line, 5))
      t == ParseT(rest)
  IN
  IF line = <<>> THEN [what |-> "skip", item |-> OkItem(t.val)]
  ELSE IF ce.ok THEN [what |-> "item", item |-> ErrItem("OpenAI", ce.message)]
  ELSE IF ByteLen(line) < 5 THEN [what |-> "panic", item |-> OkItem(t.val)]
  ELSE IF starts_with(rest, DONE) THEN [what |-> "end", item |-> OkItem(t.val)]
  ELSE IF ~t.ok THEN [what |-> "item", item |-> ErrItem("Json", "")]
  ELSE [what |-> "item", item |-> OkItem(t.val)]

\* Index (0-based, as in the code) of the first "\n\n" window, or -1.
FindDelim(current) ==
  LET hits == {i \in 1..(Len(current) - 1) : current[i] = NL /\ current[i + 1] = NL}
  IN IF hits = {} THEN -1 ELSE (CHOOSE i \in hits : \A j \in hits : i <= j) - 1

\* process_line splitting at the last "\n\n" of the chunk instead of the first.
process_line_last(current) ==
  LET hits == {i \in 1..(Len(current) - 1) : current[i] = NL /\ current[i + 1] = NL}
      idx == IF hits = {} THEN -1 ELSE (CHOOSE i \in hits : \A j \in hits : i >= j) - 1
  IN
  IF idx < 0
  THEN [panic |-> TRUE, line |-> <<>>, rest |-> current]
  ELSE [panic |-> FALSE, line |-> Take(current, idx), rest |-> Drop(current, idx + 2)]

\* process_line: split_off(idx.unwrap_or(len)).slice(2..); the slice panics
\* when no delimiter was found (the split-off tail is empty).
\* process_line that copies the line out and leaves it in the buffer.
process_line_keep(current) ==
  LET idx == FindDelim(current) IN
  IF idx < 0
  THEN [panic |-> TRUE, line |-> <<>>, rest |-> current]
  ELSE [panic |-> FALSE, line |-> Take(current, idx), rest |-> current]

process_line(current) ==
  LET idx == FindDelim(current) IN
  IF idx < 0
  THEN [panic |-> TRUE, line |-> <<>>, rest |-> current]
  ELSE [panic |-> FALSE, line |-> Take(current, idx), rest |-> Drop(current, idx + 2)]

\* ------------------------------------------------------------ event records
\* The records an event-stream response is made of, each followed by "\n\n".
RecordKinds ==
  {"p1", "p2", "done", "err", "errmsg", "ws", "bad", "short", "donex", "nopfx", "pws"}

RecordBody(k) ==
  CASE k = "p1" -> DataPrefix \o <<SP, "1">>
    [] k = "p2" -> DataPrefix \o <<SP, "2">>
    [] k = "done" -> DataPrefix \o <<SP>> \o DONE
    [] k = "err" -> ErrorDoc
    [] k = "errmsg" -> ErrorDocNoType
    [] k = "ws" -> <<SP>>
    [] k = "bad" -> DataPrefix \o <<SP, "x">>
    [] k = "short" -> <<"1">>
    [] k = "donex" -> DataPrefix \o <<SP>> \o DONE \o <<"1">>
    [] k = "nopfx" -> <<"x", "x", "x", "x", "x", "1">>
    [] k = "pws" -> <<SP>> \o DataPrefix \o <<SP, "1", SP>>

RECURSIVE WireOf(_)
WireOf(recs) ==
  IF recs = <<>> THEN <<>> ELSE RecordBody(Head(recs)) \o Delim \o WireOf(Tail(recs))

\* ------------------------------------------------------------- OpenAiStream
VARIABLES
  input,          \* what the response consists of (fixed in Init)
  inner,          \* OpenAiStream.inner: the byte source
  current_chunk,  \* OpenAiStream.current_chunk: Option<Bytes>
  received,       \* history: bytes of the chunks the source has returned
  cuts,           \* history: the lengths of received at which a chunk ended
  taken,          \* history: lines removed from the buffer and how each decoded
  out,            \* history: items the stream has yielded
  ret,            \* return value of the last poll_next
  polled,         \* number of polls of the source made by the last poll_next
  ended,          \* number of items yielded before the first Ready(None), or -1
  doneSeen,       \* history: a Ready(None) was returned for a [DONE] record
  errored         \* number of items yielded up to the first error item, or -1

\* Contents<S, T> (file-content line decoder)
VARIABLES
  cinput,         \* what the file-content response consists of (fixed in Init)
  stream,         \* Contents.stream: the byte source
  buf,            \* Contents.buf: VecDeque<u8>
  cchunks,        \* history: number of chunks the source has returned
  cout,           \* history: items the decoder has yielded
  cfound,         \* history: the buffer and the bytes decoded when the last poll
                  \* found a terminator
  cret            \* return value of the last poll_next

\* StreamTokioAsyncRead<S> (buffered reader)
VARIABLES
  rinner,         \* StreamTokioAsyncRead.inner: the byte source
  buffer,         \* StreamTokioAsyncRead.buffer: VecDeque<u8>
  rreceived,      \* history: bytes of the chunks the source has returned
  consumed,       \* history: bytes removed by consume
  written,        \* history: bytes poll_read has put into its callers' buffers
  last            \* the last call: its name, what it found and what it returned

None == [some |-> FALSE, v |-> <<>>]
Some(x) == [some |-> TRUE, v |-> x]

\* A byte source with the bytes still to come (wire), whether the transport
\* fails after them (fail), and whether it has reported its end (closed).
Source(w, f) == [wire |-> w, fail |-> f, closed |-> FALSE]

\* What one poll of the byte source can return: no chunk ready yet, the next
\* chunk (any number of the bytes to come), the transport error, or the end.
\* mode "whole" is a source that has the complete response ready as a single
\* chunk; mode "any0" is a source that may also deliver zero-length chunks;
\* mode "once" is a source that has one chunk ready and nothing after it yet.
InnerPoll(src, mode) ==
  (IF mode = "whole" \/ src.closed \/ (mode = "once" /\ src.wire # <<>>) THEN {}
   ELSE {[res |-> "Pending", bytes |-> <<>>, src |-> src]})
  \cup
  (IF mode = "once" /\ src.wire = <<>> THEN {}
   ELSE IF src.wire # <<>>
   THEN {[res |-> "Chunk", bytes |-> Take(src.wire, k),
          src |-> [src EXCEPT !.wire = Drop(src.wire, k)]] :
           k \in CASE mode \in {"whole", "once"} -> {Len(src.wire)}
                   [] mode = "any0" -> 0..Len(src.wire)
                   [] OTHER -> 1..Len(src.wire)}
   ELSE IF src.fail
     THEN {[res |-> "Err", bytes |-> <<>>, src |-> [src EXCEPT !.fail = FALSE]]}
     ELSE {[res |-> "None", bytes |-> <<>>, src |-> [src EXCEPT !.closed = TRUE]]})

Returning(st, r, it) == [st EXCEPT !.ret = r, !.item = it]

NoItem == OkItem([kind |-> "none", n |-> 0, members |-> {}])

\* A poll that turns to the source whatever is buffered.
NeedsSource_always(cur) == TRUE

\* match self.current_chunk: the source is polled when nothing is buffered.
NeedsSource(cur) == ~cur.some

\* The loop of OpenAiStream::poll_next.  st holds the fields of the stream and
\* the histories; the result is the set of states the call can return in.
RECURSIVE poll_next(_, _)
poll_next(st, mode) ==
  LET decode(s0, raw) ==
        LET d == DecodeLine(raw)
            s == [s0 EXCEPT !.taken = Append(@, [raw |-> raw \o Delim, what |-> d.what,
                                                 item |-> d.item])]
        IN
        CASE d.what = "skip" -> poll_next(s, mode)
          [] d.what = "panic" -> {Returning(s, "Panic", NoItem)}
          [] d.what = "end" -> {[Returning(s, "None", NoItem) EXCEPT !.done = TRUE]}
          [] OTHER -> {Returning(s, "Some", d.item)}
      keep(x) == IF x = <<>> THEN None ELSE Some(x)
  IN
  IF ~NeedsSource(st.current_chunk)
  THEN LET pl == process_line(st.current_chunk.v) IN
       IF pl.panic THEN {Returning(st, "Panic", NoItem)}
       ELSE decode([st EXCEPT !.current_chunk = keep(pl.rest)], pl.line)
  ELSE UNION {
         LET s1 == [st EXCEPT !.inner = p.src, !.polled = @ + 1,
                              !.received = @ \o p.bytes,
                              !.cuts = IF p.res = "Chunk"
                                       THEN @ \cup {Len(st.received) + Len(p.bytes)}
                                       ELSE @] IN
         CASE p.res = "Pending" -> {Returning(s1, "Pending", NoItem)}
           [] p.res = "Err" -> {Returning(s1, "Some", ErrItem("Reqwest", ""))}
           [] p.res = "None" -> {Returning(s1, "None", NoItem)}
           [] OTHER ->
                LET pl == process_line(p.bytes) IN
                IF pl.panic THEN {Returning(s1, "Panic", NoItem)}
                ELSE decode([s1 EXCEPT !.current_chunk = keep(pl.rest)], pl.line)
         : p \in InnerPoll(st.inner, mode)}

evVars ==
  <<input, inner, current_chunk, received, cuts, taken, out, ret, polled, ended, doneSeen,
    errored>>
cVars == <<cinput, stream, buf, cchunks, cout, cfound, cret>>
\* ChatCompletionStream (chat.rs) and, beside it, an OpenAiStream fed the
\* same chunks.
VARIABLES
  chinput,        \* what the response consists of (fixed in Init)
  chinner,        \* ChatCompletionStream.inner: the byte source
  chout,          \* history: what the polls of ChatCompletionStream returned
  gout            \* history: what the polls of an OpenAiStream<T> over the same
                  \* chunks returned

rVars == <<rinner, buffer, rreceived, consumed, written, last>>
chVars == <<chinput, chinner, chout, gout>>
vars == <<evVars, cVars, rVars, chVars>>

\* The fields poll_next works on, at the start of a call.
Entry(src, cur, rcv, tk) ==
  [inner |-> src, current_chunk |-> cur, received |-> rcv, taken |-> tk, polled |-> 0,
   ret |-> "", item |-> NoItem, done |-> FALSE, cuts |-> {}]

Inputs ==
  {[recs |-> r, trunc |-> t, fail |-> f] :
     r \in UNION {[1..n -> RecordKinds] : n \in 1..MaxRecords},
     t \in {0, 1, 2}, f \in BOOLEAN}

WireIn(i) == Take(WireOf(i.recs), Len(WireOf(i.recs)) - i.trunc)

InitEvent ==
  /\ input \in Inputs
  /\ inner = Source(WireIn(input), input.fail)
  /\ current_chunk = None
  /\ received = <<>>
  /\ cuts = {}
  /\ taken = <<>>
  /\ out = <<>>
  /\ ret = "Init"
  /\ polled = 0
  /\ ended = -1
  /\ doneSeen = FALSE
  /\ errored = -1

\* One call of poll_next by the consumer.  A panic unwinds the polling task:
\* the stream is not polled again.
PollNext ==
  /\ ret # "Panic"
  /\ \E o \in poll_next([Entry(inner, current_chunk, received, taken) EXCEPT !.cuts = cuts],
                         "any") :
       /\ cuts' = o.cuts
       /\ inner' = o.inner
       /\ current_chunk' = o.current_chunk
       /\ received' = o.received
       /\ taken' = o.taken
       /\ polled' = o.polled
       /\ ret' = o.ret
       /\ out' = IF o.ret = "Some" THEN Append(out, o.item) ELSE out
       /\ ended' = IF ended < 0 /\ o.ret = "None" THEN Len(out) ELSE ended
       /\ doneSeen' = (doneSeen \/ o.done)
       /\ errored' = IF errored < 0 /\ o.ret = "Some" /\ o.item.tag = "Err"
                     THEN Len(out) + 1 ELSE errored
  /\ UNCHANGED input
  /\ UNCHANGED <<cVars, rVars, chVars>>

\* ----------------------------------------------------------------- Contents
\* Index (0-based) of the first "\n" of the buffer, or -1.
FindNewline(b) ==
  LET hits == {i \in 1..Len(b) : b[i] = NL}
  IN IF hits = {} THEN -1 ELSE (CHOOSE i \in hits : \A j \in hits : i <= j) - 1

\* VecDeque::split_off(at): self keeps [0, at), the returned deque is [at, len).
split_off(d, at) == [self |-> Take(d, at), returned |-> Drop(d, at)]

\* The loop of Contents::poll_next; the result is the set of states the call
\* can return in.
RECURSIVE contents_poll_next(_)
contents_poll_next(st) ==
  LET idx == FindNewline(st.buf) IN
  IF idx >= 0
  THEN LET sp == split_off(st.buf, idx)
           line == sp.returned
           t == ParseT(line)
       IN {[st EXCEPT !.buf = sp.self, !.ret = "Some",
                      !.found = [some |-> TRUE, at |-> st.buf, line |-> line],
                      !.item = IF t.ok THEN OkItem(t.val) ELSE ErrItem("Json", "")]}
  ELSE UNION {
         LET s1 == [st EXCEPT !.stream = p.src] IN
         CASE p.res = "Pending" -> {Returning(s1, "Pending", NoItem)}
           [] p.res = "Err" -> {Returning(s1, "Some", ErrItem("Reqwest", ""))}
           [] p.res = "None" -> {Returning(s1, "None", NoItem)}
           [] OTHER -> contents_poll_next([s1 EXCEPT !.buf = @ \o p.bytes,
                                                     !.chunks = @ + 1])
         : p \in InnerPoll(st.stream, "any")}

NotFound == [some |-> FALSE, at |-> <<>>, line |-> <<>>]

\* A file-content body: complete lines, each one JSON document and "\n",
\* then possibly the beginning of a further line.
ContentInputs ==
  {[docs |-> d, partial |-> pt, fail |-> f] :
     d \in UNION {[1..n -> Digits] : n \in 0..MaxLines},
     pt \in {<<>>, <<"1">>}, f \in BOOLEAN}

RECURSIVE LinesOf(_)
LinesOf(docs) == IF docs = <<>> THEN <<>> ELSE <<Head(docs), NL>> \o LinesOf(Tail(docs))

InitContents ==
  /\ cinput \in ContentInputs
  /\ stream = Source(LinesOf(cinput.docs) \o cinput.partial, cinput.fail)
  /\ buf = <<>>
  /\ cchunks = 0
  /\ cout = <<>>
  /\ cfound = NotFound
  /\ cret = "Init"

ContentsPollNext ==
  /\ \E o \in contents_poll_next([stream |-> stream, buf |-> buf, chunks |-> cchunks,
                                  ret |-> "", item |-> NoItem, found |-> NotFound]) :
       /\ cfound' = o.found
       /\ stream' = o.stream
       /\ buf' = o.buf
       /\ cchunks' = o.chunks
       /\ cret' = o.ret
       /\ cout' = IF o.ret = "Some" THEN Append(cout, o.item) ELSE cout
  /\ UNCHANGED cinput
  /\ UNCHANGED <<evVars, rVars, chVars>>

\* ----------------------------------------------------- StreamTokioAsyncRead
ByteVals == {"a", "b"}

\* consume with drain taking the bytes from the back of the buffer.
consume_back(b, amt) ==
  [drained |-> Drop(b, Len(b) - amt), buffer |-> Take(b, Len(b) - amt)]

\* consume: self.buffer.drain(0..amt).
consume(b, amt) == [drained |-> Take(b, amt), buffer |-> Drop(b, amt)]

\* poll_fill_buf that polls the source although bytes are buffered.
poll_fill_buf_always_polls(b, src) ==
  {[buffer |-> IF p.res = "Chunk" THEN b \o p.bytes ELSE b, inner |-> p.src,
    src |-> p.res, chunk |-> p.bytes,
    ret |-> CASE p.res = "Pending" -> "Pending" [] p.res = "Err" -> "Err" [] OTHER -> "Ok",
    slice |-> IF p.res = "Chunk" THEN b \o p.bytes ELSE <<>>]
   : p \in InnerPoll(src, "any0")}

\* poll_fill_buf; the result is the set of ways the call can return: the
\* buffer and source afterwards, what the source returned ("unpolled" when
\* it was not polled), and the Poll value with the slice of Ready(Ok(slice)).
poll_fill_buf(b, src) ==
  IF b # <<>>
  THEN {[buffer |-> b, inner |-> src, src |-> "unpolled", chunk |-> <<>>,
         ret |-> "Ok", slice |-> b]}
  ELSE {CASE p.res = "Pending" ->
               [buffer |-> b, inner |-> p.src, src |-> p.res, chunk |-> <<>>,
                ret |-> "Pending", slice |-> <<>>]
          [] p.res = "Chunk" ->
               [buffer |-> b \o p.bytes, inner |-> p.src, src |-> p.res, chunk |-> p.bytes,
                ret |-> "Ok", slice |-> b \o p.bytes]
          [] p.res = "Err" ->
               [buffer |-> b, inner |-> p.src, src |-> p.res, chunk |-> <<>>,
                ret |-> "Err", slice |-> <<>>]
          [] OTHER ->
               [buffer |-> b, inner |-> p.src, src |-> p.res, chunk |-> <<>>,
                ret |-> "Ok", slice |-> <<>>]
        : p \in InnerPoll(src, "any0")}

NoCall ==
  [op |-> "init", pre |-> <<>>, amt |-> 0, src |-> "unpolled", chunk |-> <<>>,
   ret |-> "", slice |-> <<>>]

InitReader ==
  /\ rinner \in {Source(w, f) : w \in UNION {[1..n -> ByteVals] : n \in 0..MaxBytes},
                                f \in BOOLEAN}
  /\ buffer = <<>>
  /\ rreceived = <<>>
  /\ consumed = <<>>
  /\ written = <<>>
  /\ last = NoCall

PollFillBuf ==
  /\ \E o \in poll_fill_buf(buffer, rinner) :
       /\ rinner' = o.inner
       /\ buffer' = o.buffer
       /\ rreceived' = rreceived \o o.chunk
       /\ last' = [op |-> "fill", pre |-> buffer, amt |-> 0, src |-> o.src,
                   chunk |-> o.chunk, ret |-> o.ret, slice |-> o.slice]
  /\ UNCHANGED <<consumed, written>>
  /\ UNCHANGED <<evVars, cVars, chVars>>

\* consume(amt) by a caller that keeps to the contract: amt is at most the
\* length of the slice the most recent fill returned.
Consume ==
  /\ last.op = "fill" /\ last.ret = "Ok"
  /\ \E amt \in 0..Len(last.slice) :
       LET c == consume(buffer, amt) IN
       /\ buffer' = c.buffer
       /\ consumed' = consumed \o c.drained
       /\ last' = [NoCall EXCEPT !.op = "consume", !.pre = buffer, !.amt = amt]
  /\ UNCHANGED <<rinner, rreceived, written>>
  /\ UNCHANGED <<evVars, cVars, chVars>>

Min(a, b) == IF a <= b THEN a ELSE b

\* The loop of poll_read.  st.rem is buf.remaining(), st.put the bytes put
\* into the caller's buffer so far, st.got the bytes the source returned in
\* this call, st.src the last answer of the source.  ReadBuf::put_slice
\* panics when it is given more bytes than remain.  The result is the set of
\* states the call can end in.
RECURSIVE poll_read(_)
poll_read(st) ==
  LET sp == split_off(st.buffer, Min(st.rem, Len(st.buffer)))
      chunk == sp.returned
      s1 == IF st.buffer = <<>> THEN st
            ELSE [st EXCEPT !.buffer = sp.self, !.put = @ \o chunk,
                            !.rem = @ - Len(chunk), !.polled = TRUE]
      done(s) == [s EXCEPT !.ret = IF s.polled THEN "Ok" ELSE "Pending"]
  IN
  IF st.buffer # <<>> /\ Len(chunk) > st.rem THEN {[st EXCEPT !.ret = "Panic"]}
  ELSE IF s1.rem > 0
  THEN UNION {
         LET s2 == [s1 EXCEPT !.inner = p.src, !.src = p.res] IN
         CASE p.res = "Chunk" ->
                UNION {poll_read(s3) :
                         s3 \in {[s2 EXCEPT !.buffer = @ \o p.bytes, !.got = @ \o p.bytes,
                                            !.polled = TRUE]}}
           [] p.res = "Err" -> {[s2 EXCEPT !.ret = "Err"]}
           [] p.res = "None" -> {done([s2 EXCEPT !.polled = TRUE])}
           [] OTHER -> {done(s2)}
         : p \in InnerPoll(s1.inner, "any")}
  ELSE {done(s1)}

\* One call of poll_read with a caller buffer of remaining capacity cap.  A
\* panic unwinds the reading task: the reader is not used again.
PollRead ==
  /\ last.ret # "Panic"
  /\ \E cap \in 0..MaxCap :
       \E o \in poll_read([buffer |-> buffer, inner |-> rinner, rem |-> cap, put |-> <<>>,
                            got |-> <<>>, src |-> "unpolled", polled |-> FALSE, ret |-> ""]) :
         /\ rinner' = o.inner
         /\ buffer' = o.buffer
         /\ rreceived' = rreceived \o o.got
         /\ written' = written \o o.put
         /\ last' = [op |-> "read", pre |-> buffer, amt |-> cap, src |-> o.src,
                     chunk |-> o.got, ret |-> o.ret, slice |-> o.put]
  /\ UNCHANGED consumed
  /\ UNCHANGED <<evVars, cVars, chVars>>

\* --------------------------------------------------------- specifications
IdleEvent ==
  /\ input = [recs |-> <<>>, trunc |-> 0, fail |-> FALSE]
  /\ inner = Source(<<>>, FALSE)
  /\ current_chunk = None
  /\ received = <<>>
  /\ cuts = {}
  /\ taken = <<>>
  /\ out = <<>>
  /\ ret = "Init"
  /\ polled = 0
  /\ ended = -1
  /\ doneSeen = FALSE
  /\ errored = -1

IdleContents ==
  /\ cinput = [docs |-> <<>>, partial |-> <<>>, fail |-> FALSE]
  /\ stream = Source(<<>>, FALSE)
  /\ buf = <<>>
  /\ cchunks = 0
  /\ cout = <<>>
  /\ cfound = NotFound
  /\ cret = "Init"

IdleReader ==
  /\ rinner = Source(<<>>, FALSE)
  /\ buffer = <<>>
  /\ rreceived = <<>>
  /\ consumed = <<>>
  /\ written = <<>>
  /\ last = NoCall

\* --------------------------------------------------- ChatCompletionStream
\* What one poll handed to the consumer.
Result(r, it) == [ret |-> r, item |-> it]

\* The Some(Ok(x)) arm of ChatCompletionStream::poll_next: the chunk x is
\* decoded as it is, as one frame.
chat_decode(x) ==
  LET ce == ParseChunkError(x)
      rest == trim_ascii_start(SliceFrom(x, 5))
      t == ParseT(rest)
  IN
  IF ce.ok THEN Result("Some", ErrItem("OpenAI", ce.message))
  ELSE IF ByteLen(x) < 5 THEN Result("Panic", NoItem)
  ELSE IF starts_with(rest, DONE) THEN Result("None", NoItem)
  ELSE IF ~t.ok THEN Result("Some", ErrItem("Json", ""))
  ELSE Result("Some", OkItem(t.val))

\* ChatCompletionStream::poll_next on the source's answer p; Pending hands
\* nothing to the consumer.
chat_poll_next(p) ==
  CASE p.res = "Pending" -> <<>>
    [] p.res = "Err" -> <<Result("Some", ErrItem("Reqwest", ""))>>
    [] p.res = "None" -> <<Result("None", NoItem)>>
    [] OTHER -> <<chat_decode(p.bytes)>>

\* An OpenAiStream polled until it waits for its source again: the set of
\* the result sequences its consumer can get (acc and what follows it).
RECURSIVE poll_until_pending(_, _, _)
poll_until_pending(st, mode, acc) ==
  UNION {
    IF o.ret = "Pending" THEN {acc}
    ELSE IF o.ret = "Panic" \/ mode = "whole" THEN {Append(acc, Result(o.ret, o.item))}
    ELSE UNION {poll_until_pending(s, mode, a) :
                  s \in {Entry(o.inner, o.current_chunk, o.received, o.taken)},
                  a \in {Append(acc, Result(o.ret, o.item))}}
    : o \in poll_next(st, mode)}

\* What an OpenAiStream with nothing buffered hands to its consumer when its
\* source gives the answer p.
generic_poll_next(p) ==
  CASE p.res = "Pending" -> {<<>>}
    [] p.res = "Err" ->
         UNION {poll_until_pending(s, "whole", <<>>) :
                  s \in {Entry(Source(<<>>, TRUE), None, <<>>, <<>>)}}
    [] p.res = "None" ->
         UNION {poll_until_pending(s, "whole", <<>>) :
                  s \in {Entry(Source(<<>>, FALSE), None, <<>>, <<>>)}}
    [] OTHER ->
         UNION {poll_until_pending(s, "once", <<>>) :
                  s \in {Entry(Source(p.bytes, FALSE), None, <<>>, <<>>)}}

Faulted(trace) == trace # <<>> /\ trace[Len(trace)].ret = "Panic"

InitChat ==
  /\ chinput \in Inputs
  /\ chinner = Source(WireIn(chinput), chinput.fail)
  /\ chout = <<>>
  /\ gout = <<>>

\* One answer of the source, taken by both streams.  Polling stops with a
\* panic of either stream and when the source has ended.
ChatPollNext ==
  /\ ~Faulted(chout) /\ ~Faulted(gout)
  /\ ~chinner.closed
  /\ \E p \in InnerPoll(chinner, "any") :
       /\ chinner' = p.src
       /\ chout' = chout \o chat_poll_next(p)
       /\ \E g \in generic_poll_next(p) : gout' = gout \o g
  /\ UNCHANGED chinput
  /\ UNCHANGED <<evVars, cVars, rVars>>

IdleChat ==
  /\ chinput = [recs |-> <<>>, trunc |-> 0, fail |-> FALSE]
  /\ chinner = Source(<<>>, FALSE)
  /\ chout = <<>>
  /\ gout = <<>>

\* The event stream.
Init == InitEvent /\ IdleContents /\ IdleReader /\ IdleChat
Next == PollNext
Spec == Init /\ [][Next]_vars

\* The file-content line decoder.
NextContents == ContentsPollNext
ContentsInit == InitContents /\ IdleEvent /\ IdleReader /\ IdleChat
SpecContents == ContentsInit /\ [][NextContents]_vars

\* The buffered reader.
NextReader == PollFillBuf \/ Consume
ReaderInit == InitReader /\ IdleEvent /\ IdleContents /\ IdleChat
SpecReader == ReaderInit /\ [][NextReader]_vars

\* The buffered reader read through poll_read.
NextRead == PollRead
ReadInit == InitReader /\ IdleEvent /\ IdleContents /\ IdleChat
SpecRead == ReadInit /\ [][NextRead]_vars

\* ChatCompletionStream beside OpenAiStream.
NextChat == ChatPollNext
ChatInit == InitChat /\ IdleEvent /\ IdleContents /\ IdleReader
SpecChat == ChatInit /\ [][NextChat]_vars

\* ===================================================== claims: event stream
\* The response consists of well-formed records only (payload records and
\* the terminal record), ends after a complete record and the transport
\* does not fail.
WellFormed ==
  /\ \A i \in 1..Len(input.recs) : input.recs[i] \in {"p1", "p2", "done"}
  /\ input.trunc = 0
  /\ ~input.fail

Payloads(items) == SelectSeq(items, LAMBDA it : it.tag = "Ok")

\* Polling a stream whose source delivers the whole response as one chunk,
\* up to the first Ready(None), error item or panic.
RECURSIVE RunWhole(_, _)
RunWhole(st, acc) ==
  LET o == CHOOSE x \in poll_next(st, "whole") : TRUE IN
  IF o.ret = "Some" /\ o.item.tag = "Ok"
  THEN RunWhole(Entry(o.inner, o.current_chunk, o.received, o.taken), Append(acc, o.item))
  ELSE IF o.ret = "Some" THEN Append(acc, o.item)
  ELSE acc

SingleChunkItems ==
  RunWhole(Entry(Source(WireIn(input), input.fail), None, <<>>, <<>>), <<>>)

\* The items yielded up to the first Ready(None) (all of them before it).
ItemsToEnd == IF ended >= 0 THEN Take(out, ended) ELSE out

\* C1: for well-formed records, however the byte string is cut into chunks,
\* polling to the end yields the payloads that polling the same bytes
\* delivered as one chunk yields.
C1_ChunkingIndependent ==
  (WellFormed /\ (ended >= 0 \/ ret = "Panic"))
    => Payloads(ItemsToEnd) = Payloads(SingleChunkItems)

\* The payload a record of the given kind carries ("nopfx" carries a JSON
\* document behind five bytes that are not the data prefix).
RecPayload(k) ==
  CASE k = "p1" -> <<1>>
    [] k = "p2" -> <<2>>
    [] k = "nopfx" -> <<1>>
    [] k = "pws" -> <<1>>
    [] OTHER -> <<>>

RECURSIVE RecPayloads(_)
RecPayloads(recs) ==
  IF recs = <<>> THEN <<>> ELSE RecPayload(Head(recs)) \o RecPayloads(Tail(recs))

RECURSIVE Vals(_)
Vals(items) ==
  IF items = <<>> THEN <<>>
  ELSE (IF Head(items).tag = "Ok" THEN <<Head(items).val.n>> ELSE <<>>) \o Vals(Tail(items))

\* C2: the lines taken from the buffer are the records of the source in
\* source order, and the payloads yielded so far are the payloads of exactly
\* those records, in that order.
C2_SourceOrder ==
  /\ Len(taken) <= Len(input.recs)
  /\ \A k \in 1..Len(taken) : taken[k].raw = RecordBody(input.recs[k]) \o Delim
  /\ Vals(out) = RecPayloads(Take(input.recs, Len(taken)))

\* Two payloads were yielded in source order, the second from a chunk of its
\* own.
C2_Witness ==
  /\ Vals(out) = <<1, 2>>
  /\ polled = 1
  /\ ret = "Some"

\* C3: once Ready(None) was returned for the terminal record, every later
\* poll returns Ready(None) without polling the source and without taking a
\* further line from the buffer.
C3_DoneIsFinal ==
  [][doneSeen => (ret' = "None" /\ polled' = 0 /\ taken' = taken /\ out' = out)]_vars

\* C4: a line that parses as the error shape is yielded as the OpenAI error
\* item and never as a payload, although the same bytes deserialize as T.
C4_ErrorPrecedence ==
  \A k \in 1..Len(taken) :
    ParseChunkError(trim_ascii(Take(taken[k].raw, Len(taken[k].raw) - 2))).ok
      => /\ taken[k].what = "item"
         /\ taken[k].item = ErrItem("OpenAI", "rate limited")
         /\ \E i \in 1..Len(out) : out[i] = taken[k].item

\* An error-shaped line that also deserializes as T was decoded.
C4_Witness ==
  /\ taken # <<>>
  /\ ParseT(trim_ascii(Take(taken[Len(taken)].raw, Len(taken[Len(taken)].raw) - 2))).ok
  /\ ParseChunkError(trim_ascii(Take(taken[Len(taken)].raw, Len(taken[Len(taken)].raw) - 2))).ok
  /\ out # <<>> /\ out[Len(out)].err = "OpenAI"

\* C5: once an error item was yielded, no later poll yields an item, takes a
\* further line from the buffer to decode it, or receives a chunk from the
\* source.
C5_ErrorIsFinal ==
  [][errored >= 0 => (out' = out /\ taken' = taken /\ received' = received)]_vars

\* C6: a record {"error":{"message":"rate limited"}} is decoded as one OpenAI
\* error item carrying the message.
C6_MessageOnlyError ==
  \A k \in 1..Len(taken) :
    trim_ascii(Take(taken[k].raw, Len(taken[k].raw) - 2)) = ErrorDocNoType
      => taken[k].what = "item" /\ taken[k].item = ErrItem("OpenAI", "rate limited")

RECURSIVE RawOf(_)
RawOf(tk) == IF tk = <<>> THEN <<>> ELSE Head(tk).raw \o RawOf(Tail(tk))

\* C8: the bytes received from the source are, in order, the lines taken so
\* far (each with its surrounding whitespace and its delimiter) followed by
\* the bytes still buffered.
C8_ByteAccounting == received = RawOf(taken) \o current_chunk.v

\* ============================================ claims: file-content decoder
\* C7: when two chunks have delivered 5 complete lines and a partial line
\* and the source has not ended, the decoder has yielded no error, the
\* records it has yielded are the first of the 5 lines in source order, and
\* when it waits for more input it has yielded all 5.
C7_FiveLinesThenWait ==
  (/\ Len(cinput.docs) = 5 /\ cinput.partial # <<>> /\ ~cinput.fail
   /\ cchunks = 2 /\ stream.wire = <<>> /\ ~stream.closed)
    => /\ \A i \in 1..Len(cout) : cout[i].tag = "Ok"
       /\ Len(cout) <= 5
       /\ \A i \in 1..Len(cout) : cout[i].val.n = DigitVal(cinput.docs[i])
       /\ cret = "Pending" => Len(cout) = 5

\* ================================================= claims: buffered reader
\* C9: fill on a non-empty buffer returns exactly the buffered bytes and does
\* not poll the source; on an empty buffer it polls the source once and
\* returns the chunk it got, an empty slice when the source has ended, the
\* error when the source failed.
C9_Fill ==
  last.op = "fill" =>
    IF last.pre # <<>>
    THEN last.src = "unpolled" /\ last.ret = "Ok" /\ last.slice = last.pre
         /\ buffer = last.pre
    ELSE /\ last.src # "unpolled"
         /\ last.src = "Chunk" => (last.ret = "Ok" /\ last.slice = last.chunk
                                   /\ buffer = last.chunk)
         /\ last.src = "None" => (last.ret = "Ok" /\ last.slice = <<>> /\ buffer = <<>>)
         /\ last.src = "Err" => (last.ret = "Err" /\ buffer = <<>>)
         /\ last.src = "Pending" => (last.ret = "Pending" /\ buffer = <<>>)

\* A fill found bytes left over by a partial consume and returned them.
C9_Witness ==
  /\ last.op = "fill" /\ last.pre # <<>> /\ last.slice = last.pre
  /\ consumed # <<>>

\* C10: consume(n) removes exactly the first n buffered bytes, a fill that
\* finds bytes left returns exactly them, and the bytes consumed so far
\* followed by the bytes buffered are the bytes received from the source.
C10_Consume ==
  /\ last.op = "consume" =>
       (buffer = Drop(last.pre, last.amt) /\ Len(buffer) = Len(last.pre) - last.amt)
  /\ (last.op = "fill" /\ last.pre # <<>>) => last.slice = last.pre
  /\ consumed \o buffer = rreceived

\* Part of a chunk was consumed and the rest is still buffered, after earlier
\* bytes had been consumed already.
C10_Witness ==
  /\ last.op = "consume" /\ last.amt > 0 /\ buffer # <<>>
  /\ Len(consumed) > last.amt

\* The position in the response of the first byte of the delimiter that ends
\* record k.
DelimAt(k) == Len(WireOf(Take(input.recs, k))) - 1

\* C11: when the two bytes of a record's "\n\n" delimiter arrive as the last
\* byte of one chunk and the first byte of the next, the stream does not fail
\* and, once the second byte has arrived, the record before the delimiter has
\* been taken as one complete frame.
C11_DelimiterAcrossChunks ==
  \A k \in 1..Len(input.recs) :
    (DelimAt(k) \in cuts /\ DelimAt(k) < Len(WireIn(input))) =>
      /\ ret # "Panic"
      /\ Len(received) > DelimAt(k) =>
           /\ Len(taken) >= k
           /\ taken[k].raw = RecordBody(input.recs[k]) \o Delim

\* The records a consumer is owed: those before the first terminal record.
RECURSIVE UpToDone(_)
UpToDone(recs) ==
  IF recs = <<>> \/ Head(recs) = "done" THEN <<>>
  ELSE <<Head(recs)>> \o UpToDone(Tail(recs))

\* C12: for a finite source of well-formed records that ends with the terminal
\* record or with end-of-data, the consumer's repeated polling does not stop
\* short of None (a poll that panics ends it for good), and the None it
\* receives comes after every payload and without an error item.
C12_ReachesNone ==
  WellFormed =>
    /\ ret # "Panic"
    /\ ended >= 0 =>
         /\ Vals(Take(out, ended)) = RecPayloads(UpToDone(input.recs))
         /\ \A i \in 1..ended : out[i].tag = "Ok"

\* C13: when the source signals end-of-data while the bytes of a final frame
\* with no terminator after it are still buffered, those bytes are emitted as
\* a final frame and decoded: the last item yielded is the decoded remainder.
C13_FinalFrameFlushed ==
  (stream.closed /\ cinput.partial # <<>> /\ ~cinput.fail) =>
    /\ cout # <<>>
    /\ cout[Len(cout)] = OkItem(ParseT(cinput.partial).val)

\* The items of out that came from frames (not from a failure of the source).
FrameItems(items) == SelectSeq(items, LAMBDA it : ~(it.tag = "Err" /\ it.err = "Reqwest"))

\* C14: a frame that is empty or only ASCII whitespace is never surfaced as
\* an item or an error; the poll that meets it does not return on it but goes
\* on to the next frame, buffered or pulled from the source; every other frame
\* is decoded with its leading and trailing ASCII whitespace removed.
C14_BlankFrames ==
  [][/\ \A k \in 1..Len(taken') :
          /\ trim_ascii(taken'[k].raw) = <<>> => taken'[k].what = "skip"
          /\ taken'[k].what # "skip" =>
               /\ taken'[k].what = DecodeLine(trim_ascii(taken'[k].raw)).what
               /\ taken'[k].item = DecodeLine(trim_ascii(taken'[k].raw)).item
          /\ taken'[k].raw = RecordBody("pws") \o Delim =>
               /\ taken'[k].what = "item"
               /\ taken'[k].item = OkItem(ParseT(<<"1">>).val)
     /\ Len(FrameItems(out')) = Cardinality({k \in 1..Len(taken') : taken'[k].what = "item"})
     /\ (/\ taken' # taken
         /\ taken'[Len(taken')].what = "skip"
         /\ ret' # "Panic") =>
           /\ ~current_chunk'.some
           /\ polled' = Cardinality(cuts' \ cuts) + 1
           /\ ret' \in {"Pending", "None", "Some"}
           /\ ret' = "Some" => out'[Len(out')] = ErrItem("Reqwest", "")
    ]_vars

C14_Witness ==
  /\ input.recs = <<"ws", "pws">>
  /\ Len(taken) = 2
  /\ taken[1].what = "skip"
  /\ out = <<OkItem(ParseT(<<"1">>).val)>>
  /\ ret = "Some"
  /\ polled = 1

\* C15: while current_chunk still holds a complete frame, a poll extracts
\* that frame and returns it without polling the source; the source is polled
\* only when every byte received before has been taken as a frame, so all the
\* frames of one chunk are yielded before the next chunk is requested.
C15_BufferedFirst ==
  [][/\ (current_chunk.some /\ FindDelim(current_chunk.v) >= 0) =>
          LET n == Len(taken) + 1 IN
          /\ Len(taken') >= n
          /\ taken'[n].raw = Take(current_chunk.v, FindDelim(current_chunk.v) + 2)
          /\ taken'[n].what # "skip" =>
               /\ polled' = 0
               /\ received' = received
               /\ Len(taken') = n
               /\ taken'[n].what = "item" => (ret' = "Some" /\ out' = Append(out, taken'[n].item))
     /\ polled' > 0 =>
          \E j \in Len(taken)..Len(taken') : RawOf(SubSeq(taken', 1, j)) = received
    ]_vars

C15_Witness ==
  /\ input.recs = <<"p1", "p2">>
  /\ cuts = {Len(WireIn(input))}
  /\ Len(out) = 2
  /\ ret = "Some"
  /\ polled = 0

\* C16: when fill has returned a non-empty slice with no line terminator in
\* it and nothing was consumed, the next fill makes progress: it pulls from
\* the source, and what it returns is a longer slice or end-of-data.
C16_FillGrows ==
  [][(/\ last.op = "fill" /\ last.ret = "Ok"
      /\ last.slice # <<>>
      /\ \A i \in 1..Len(last.slice) : last.slice[i] # NL
      /\ last'.op = "fill") =>
        /\ last'.src # "unpolled"
        /\ last'.ret = "Ok" => (Len(last'.slice) > Len(last.slice) \/ last'.src = "None")
    ]_vars

\* C17: when Contents::poll_next finds a line terminator, the bytes handed to
\* the JSON decoder are exactly the bytes before the first terminator, and
\* afterwards the buffer holds exactly the bytes after that terminator.
C17_LineBeforeTerminator ==
  cfound.some =>
    LET idx == FindNewline(cfound.at) IN
    /\ cfound.line = Take(cfound.at, idx)
    /\ buf = Drop(cfound.at, idx + 1)

\* ============================================ claims: ChatCompletionStream
\* C18: for every chunk sequence ChatCompletionStream::poll_next hands its
\* consumer the same sequence of results as the generic OpenAiStream::poll_next
\* at the same payload type.
C18_ChatAsGeneric == chout = gout

\* ======================================= claims: event stream, decoding
\* What is left of a taken line after trimming, the removal of the 5-byte
\* prefix and the trimming of the start.
Remainder(raw) == trim_ascii_start(SliceFrom(trim_ascii(raw), 5))

\* A taken line that got as far as the sentinel test: not blank, not an error
\* object, at least 5 bytes.
ReachesSentinelTest(e) == e.what \in {"end", "item"} /\ ~ParseChunkError(e.raw).ok

\* C19: after the prefix is stripped a frame is the end of the stream exactly
\* when the remainder equals "[DONE]"; a remainder that only begins with the
\* sentinel and has further bytes is handed to the deserializer of T.
C19_DoneExact ==
  \A k \in 1..Len(taken) :
    ReachesSentinelTest(taken[k]) =>
      /\ taken[k].what = "end" <=> Remainder(taken[k].raw) = DONE
      /\ (starts_with(Remainder(taken[k].raw), DONE) /\ Remainder(taken[k].raw) # DONE) =>
           /\ taken[k].what = "item"
           /\ taken[k].item = IF ParseT(Remainder(taken[k].raw)).ok
                              THEN OkItem(ParseT(Remainder(taken[k].raw)).val)
                              ELSE ErrItem("Json", "")

\* A taken line whose remainder goes to the deserializer of T and is rejected.
FailsAsT(raw) ==
  /\ trim_ascii(raw) # <<>>
  /\ ~ParseChunkError(raw).ok
  /\ ByteLen(trim_ascii(raw)) >= 5
  /\ ~starts_with(Remainder(raw), DONE)
  /\ ~ParseT(Remainder(raw)).ok

JsonErrors(items) == SelectSeq(items, LAMBDA it : it.tag = "Err" /\ it.err = "Json")

\* C20: when the remainder of a frame fails to deserialize as T the stream
\* yields exactly one error item for that frame; the frame's bytes are already
\* out of the buffer, so a later poll does not decode them again: the failed
\* frame is neither retried nor skipped, and the next frame taken is the next
\* record of the source.
C20_DecodeErrorOnce ==
  /\ \A k \in 1..Len(taken) :
       FailsAsT(taken[k].raw) =>
         /\ taken[k].what = "item"
         /\ taken[k].item = ErrItem("Json", "")
         /\ taken[k].raw = RecordBody(input.recs[k]) \o Delim
         /\ k < Len(taken) => taken[k + 1].raw = RecordBody(input.recs[k + 1]) \o Delim
  /\ Len(JsonErrors(out)) = Cardinality({k \in 1..Len(taken) : FailsAsT(taken[k].raw)})
  /\ current_chunk.some =>
       current_chunk.v = SubSeq(WireIn(input), Len(RawOf(taken)) + 1, Len(received))

C20_Witness ==
  /\ input.recs = <<"bad", "p1">>
  /\ cuts = {Len(WireIn(input))}
  /\ Len(taken) = 2
  /\ FailsAsT(taken[1].raw)
  /\ out = <<ErrItem("Json", ""), OkItem(ParseT(<<"1">>).val)>>

\* ================================ claims: event stream, polling discipline
\* C21: the byte source is polled only inside a poll of the stream by its
\* consumer; one poll pulls further chunks only until it can return one item
\* (only blank frames are passed over, and the source is not polled again
\* once a frame has given the poll its result); what the stream keeps between
\* polls is exactly the received bytes not yet taken as frames, never a
\* decoded item.
C21_PullBased ==
  [][/\ (inner' # inner \/ received' # received) => polled' > 0
     /\ \A i \in (Len(taken) + 1)..(Len(taken') - 1) : taken'[i].what = "skip"
     /\ Len(out') <= Len(out) + 1
     /\ (Len(taken') > Len(taken) /\ taken'[Len(taken')].what # "skip") =>
          polled' = Cardinality(cuts' \ cuts)
     /\ ret' # "Panic" => received' = RawOf(taken') \o current_chunk'.v
    ]_vars

C21_Witness ==
  /\ input.recs = <<"ws", "p1">>
  /\ cuts = {3, Len(WireIn(input))}
  /\ input.trunc = 0
  /\ polled = 2
  /\ ret = "Some"
  /\ out = <<OkItem(ParseT(<<"1">>).val)>>

\* ================================================ claims: file contents
DocItem(d) == OkItem(ParseT(<<d>>).val)

\* C22: a transport error returned by the byte source is surfaced as one
\* error item, at its position in the stream: every frame contained in the
\* chunks received before it has been yielded before it (here the source
\* fails after the last chunk, so these are all the lines of the body).
C22_TransportErrorInPlace ==
  \A i \in 1..Len(cout) :
    cout[i] = ErrItem("Reqwest", "") =>
      /\ i = Len(cinput.docs) + 1
      /\ \A j \in 1..(i - 1) : cout[j] = DocItem(cinput.docs[j])
      /\ \A j \in 1..Len(cout) : cout[j] = ErrItem("Reqwest", "") => j = i

\* C23: when the byte source signals end-of-data the stream reports
\* end-of-sequence without yielding an item or an error, and it does so only
\* in a state where no bytes are buffered.
C23_EndOnlyWhenEmpty ==
  [][(cret' = "None" /\ stream'.closed) => (cout' = cout /\ buf' = <<>>)]_vars

\* ======================================= claims: event stream, data prefix
\* C24: a frame is decoded as a payload or as the end of the stream only if
\* it begins with the literal data prefix; a non-empty frame that does not
\* begin with it (and is not an error object) never produces a payload item.
C24_PrefixRequired ==
  \A k \in 1..Len(taken) :
    (taken[k].what = "end" \/ (taken[k].what = "item" /\ taken[k].item.tag = "Ok")) =>
      starts_with(trim_ascii(taken[k].raw), DataPrefix)

\* ================================================= claims: buffered reader
\* C25: fill returns an empty slice, the end-of-file signal, only when the
\* byte source has signalled end-of-data; a zero-length chunk from a source
\* that has more to deliver does not make fill report end-of-file.
C25_EmptySliceOnlyAtEnd ==
  (last.op = "fill" /\ last.ret = "Ok" /\ last.slice = <<>>) => last.src = "None"

\* ========================================== claims: reader, poll_read
\* C26: a poll returns Pending only while waiting for the source (the source
\* was polled and had no chunk ready), and such a poll leaves the buffered
\* bytes unchanged and hands nothing to the caller.
C26_PendingOnlyOnSource ==
  [][(last'.op = "read" /\ last'.ret = "Pending") =>
       (last'.src = "Pending" /\ buffer' = buffer /\ written' = written)]_vars

\* ============================================ claims: event stream, faults
\* C27: for every chunk sequence and frame content a call of poll_next ends
\* by returning an item, an error value, end-of-sequence or Pending; it never
\* faults.
C27_NeverFaults == ret \in {"Init", "Some", "None", "Pending"}

\* ========================================== claims: reader, poll_read
\* C28: over any sequence of poll_read calls the bytes written into the
\* callers' buffers, followed by the bytes still buffered, are the bytes of
\* the source chunks, in order, none omitted, repeated or reordered; and
\* poll_read reports end-of-file (ready with nothing written into a buffer
\* that had room) only when the source has ended and the buffer is empty.
C28_ReadConserves ==
  /\ last.ret # "Panic" => rreceived = written \o buffer
  /\ (last.op = "read" /\ last.ret = "Ok" /\ last.amt > 0 /\ last.slice = <<>>) =>
       (last.src = "None" /\ buffer = <<>>)

\* C29: a single poll_read call never puts more bytes into the caller's
\* buffer than the buffer's remaining capacity, whatever the lengths of the
\* internal buffer and of the caller's buffer: no put_slice is given more
\* bytes than remain (which ReadBuf answers with a panic).
C29_WithinCapacity ==
  last.op = "read" => (last.ret # "Panic" /\ Len(last.slice) <= last.amt)

\* ================================================ claims: file contents
\* C30: round trip: the items encoded by File::upload_stream, each as one
\* JSON document followed by "\n", and fed in any chunking to Contents come
\* out as the same items in the same order, one item per line, and all of
\* them once the source has ended.
C30_RoundTrip ==
  (cinput.partial = <<>> /\ ~cinput.fail) =>
    /\ Len(cout) <= Len(cinput.docs)
    /\ \A i \in 1..Len(cout) : cout[i] = DocItem(cinput.docs[i])
    /\ stream.closed => Len(cout) = Len(cinput.docs)

====
